---- MODULE Spec2Model ----
(***************************************************************************)
(* Two-level bucketed container of Items (DataStructure.cpp) together with *)
(* the identifier parser it is built on.                                   *)
(*                                                                         *)
(* A C string is modelled as the sequence of its character codes up to and *)
(* including the terminating NUL; the null pointer is the empty sequence.  *)
(* Position 1 of the sequence is index 0 of the char array.                *)
(***************************************************************************)
EXTENDS Integers, Sequences, FiniteSets, TLC

\* ---------------------------------------------------------------- constants
FIRST_VALID_LETTER == 65
LAST_VALID_LETTER == 90
WORD_SEPARATOR == 32
NUL == 0
BucketSize == 26
nullptr == <<>>
NullAddress == 0

\* ------------------------------------------------------------------- bounds
MaxInserts == 3
MaxLen == 3
HeapSize == 8

\* ---------------------------------------------------------- <cstring> calls
RECURSIVE strlenFrom(_, _)
strlenFrom(s, i) == IF s[i] = NUL THEN i - 1 ELSE strlenFrom(s, i + 1)

strlen(s) == strlenFrom(s, 1)

\* position of the first occurrence of c in s, 0 for a null result
RECURSIVE strchrFrom(_, _, _)
strchrFrom(s, c, i) ==
  IF s[i] = c THEN i
  ELSE IF s[i] = NUL THEN 0
  ELSE strchrFrom(s, c, i + 1)

strchr(s, c) == strchrFrom(s, c, 1)

RECURSIVE strcmpFrom(_, _, _)
strcmpFrom(a, b, i) ==
  IF a[i] # b[i] THEN (IF a[i] < b[i] THEN -1 ELSE 1)
  ELSE IF a[i] = NUL THEN 0
  ELSE strcmpFrom(a, b, i + 1)

strcmp(a, b) == strcmpFrom(a, b, 1)

\* -------------------------------------------------------------------- Item
duplicateString(source) ==
  IF source = nullptr THEN nullptr
  ELSE SubSeq(source, 1, strlen(source) + 1)

\* Item::Item(const Item&)
ItemCopy(sourceItem) ==
  [pID   |-> duplicateString(sourceItem.pID),
   Code  |-> sourceItem.Code,
   pTime |-> duplicateString(sourceItem.pTime),
   pNext |-> nullptr]

\* operator<<(std::ostream&, const Item&): the characters written
ItemOut(itemToOutput) ==
  IF itemToOutput.pID # nullptr
  THEN SubSeq(itemToOutput.pID, 1, strlen(itemToOutput.pID))
  ELSE <<40, 110, 117, 108, 108, 41>>

\* operator== that also compares Code
ItemEquals_withCode(self, otherItem) ==
  IF self.pID = nullptr \/ otherItem.pID = nullptr
  THEN self.pID = otherItem.pID
  ELSE strcmp(self.pID, otherItem.pID) = 0 /\ self.Code = otherItem.Code

\* Item::operator==
ItemEquals(self, otherItem) ==
  IF self.pID = nullptr \/ otherItem.pID = nullptr
  THEN self.pID = otherItem.pID
  ELSE strcmp(self.pID, otherItem.pID) = 0

\* ------------------------------------------------------- identifier parser
ParsedItemIdentifier(ok, first, second) ==
  [ok |-> ok, firstWordInitial |-> first, secondWordIndex |-> second]

tryParseItemIdentifier_offByOne(itemIdentifier) ==
  IF itemIdentifier = nullptr \/ itemIdentifier[1] = NUL
  THEN ParsedItemIdentifier(FALSE, 0, 0)
  ELSE LET firstWordInitial == itemIdentifier[1] IN
    IF firstWordInitial < FIRST_VALID_LETTER \/ firstWordInitial > LAST_VALID_LETTER
    THEN ParsedItemIdentifier(FALSE, 0, 0)
    ELSE LET spacePosition == strchr(itemIdentifier, WORD_SEPARATOR) IN
      IF spacePosition = 0 \/ itemIdentifier[spacePosition + 1] = NUL
      THEN ParsedItemIdentifier(FALSE, 0, 0)
      ELSE LET secondWordInitial == itemIdentifier[spacePosition + 1] IN
        IF secondWordInitial < FIRST_VALID_LETTER \/ secondWordInitial >= LAST_VALID_LETTER
        THEN ParsedItemIdentifier(FALSE, 0, 0)
        ELSE ParsedItemIdentifier(TRUE, firstWordInitial,
                                  secondWordInitial - FIRST_VALID_LETTER)

tryParseItemIdentifier(itemIdentifier) ==
  IF itemIdentifier = nullptr \/ itemIdentifier[1] = NUL
  THEN ParsedItemIdentifier(FALSE, 0, 0)
  ELSE LET firstWordInitial == itemIdentifier[1] IN
    IF firstWordInitial < FIRST_VALID_LETTER \/ firstWordInitial > LAST_VALID_LETTER
    THEN ParsedItemIdentifier(FALSE, 0, 0)
    ELSE LET spacePosition == strchr(itemIdentifier, WORD_SEPARATOR) IN
      IF spacePosition = 0 \/ itemIdentifier[spacePosition + 1] = NUL
      THEN ParsedItemIdentifier(FALSE, 0, 0)
      ELSE LET secondWordInitial == itemIdentifier[spacePosition + 1] IN
        IF secondWordInitial < FIRST_VALID_LETTER \/ secondWordInitial > LAST_VALID_LETTER
        THEN ParsedItemIdentifier(FALSE, 0, 0)
        ELSE ParsedItemIdentifier(TRUE, firstWordInitial,
                                  secondWordInitial - FIRST_VALID_LETTER)

\* ------------------------------------------------------ container plumbing
\* std::array<std::forward_list<Item>, 26>, value-initialised
Bucket == [i \in 0 .. BucketSize - 1 |-> <<>>]

\* std::map<char, Bucket>::operator[]: inserts an empty Bucket when absent
MapSubscript(buckets, key) ==
  IF key \in DOMAIN buckets THEN buckets ELSE (key :> Bucket) @@ buckets

\* std::map iteration order: keys ascending
RECURSIVE MapOrder(_)
MapOrder(keys) ==
  IF keys = {} THEN <<>>
  ELSE LET least == CHOOSE k \in keys : \A other \in keys : k <= other
       IN <<least>> \o MapOrder(keys \ {least})

\* std::find_if over a chain with the strcmp predicate: position of the
\* first match, 0 for end()
\* looks at the front of the chain only
find_if_frontOnly(itemList, itemIdentifier, current) ==
  IF current > Len(itemList) THEN 0
  ELSE IF strcmp(itemList[current].pID, itemIdentifier) = 0 THEN current
  ELSE 0

RECURSIVE find_if(_, _, _)
find_if(itemList, itemIdentifier, current) ==
  IF current > Len(itemList) THEN 0
  ELSE IF strcmp(itemList[current].pID, itemIdentifier) = 0 THEN current
  ELSE find_if(itemList, itemIdentifier, current + 1)

\* push_back in place of push_front
push_front_back(itemList, item) == Append(itemList, ItemCopy(item))

\* assigns the chain in place of extending it
push_front_overwrite(itemList, item) == <<ItemCopy(item)>>

\* insert_after(begin()) in place of push_front
push_front_afterFirst(itemList, item) ==
  IF itemList = <<>> THEN <<ItemCopy(item)>>
  ELSE <<Head(itemList), ItemCopy(item)>> \o Tail(itemList)

push_front(itemList, item) == <<ItemCopy(item)>> \o itemList

\* erase_after(previous, end()): drops the rest of the chain
erase_after_truncate(itemList, previous) == SubSeq(itemList, 1, previous)

\* pop_front in place of erase_after(previous)
erase_after_popFront(itemList, previous) == Tail(itemList)

\* forward_list::erase_after(previous): previous = 0 is before_begin()
erase_after(itemList, previous) ==
  IF previous + 1 > Len(itemList) THEN itemList
  ELSE SubSeq(itemList, 1, previous) \o SubSeq(itemList, previous + 2, Len(itemList))

\* ------------------------------------------------------------- operations
NullItem == [key |-> 0, index |-> 0, position |-> 0]

\* counts the chains that hold something in place of their items
RECURSIVE BucketDistance_chains(_, _)
BucketDistance_chains(bucket, index) ==
  IF index >= BucketSize THEN 0
  ELSE (IF bucket[index] = <<>> THEN 0 ELSE 1) + BucketDistance_chains(bucket, index + 1)

\* DataStructure::GetItemsNumber: the nested range-for, bucket by bucket
RECURSIVE BucketDistance(_, _)
BucketDistance(bucket, index) ==
  IF index >= BucketSize THEN 0
  ELSE Len(bucket[index]) + BucketDistance(bucket, index + 1)

RECURSIVE CountFrom(_, _, _)
CountFrom(buckets, order, n) ==
  IF n > Len(order) THEN 0
  ELSE BucketDistance(buckets[order[n]], 0) + CountFrom(buckets, order, n + 1)

GetItemsNumber(buckets) == CountFrom(buckets, MapOrder(DOMAIN buckets), 1)

\* looks the bucket up with operator[] in place of find()
GetItem_subscript(buckets, itemIdentifier) ==
  LET parsedIdentifier == tryParseItemIdentifier(itemIdentifier) IN
  IF ~parsedIdentifier.ok THEN [buckets |-> buckets, item |-> NullItem]
  ELSE LET created == MapSubscript(buckets, parsedIdentifier.firstWordInitial)
           itemList == created[parsedIdentifier.firstWordInitial]
                              [parsedIdentifier.secondWordIndex]
           foundItem == find_if(itemList, itemIdentifier, 1)
       IN IF foundItem = 0 THEN [buckets |-> created, item |-> NullItem]
          ELSE [buckets |-> created,
                item |-> [key |-> parsedIdentifier.firstWordInitial,
                          index |-> parsedIdentifier.secondWordIndex,
                          position |-> foundItem]]

\* DataStructure::GetItem: the returned pointer names the place of the item
\* inside the container; the container itself is handed back untouched
GetItem(buckets, itemIdentifier) ==
  LET parsedIdentifier == tryParseItemIdentifier(itemIdentifier) IN
  IF ~parsedIdentifier.ok THEN [buckets |-> buckets, item |-> NullItem]
  ELSE IF parsedIdentifier.firstWordInitial \notin DOMAIN buckets
  THEN [buckets |-> buckets, item |-> NullItem]
  ELSE LET itemList == buckets[parsedIdentifier.firstWordInitial]
                              [parsedIdentifier.secondWordIndex]
           foundItem == find_if(itemList, itemIdentifier, 1)
       IN IF foundItem = 0 THEN [buckets |-> buckets, item |-> NullItem]
          ELSE [buckets |-> buckets,
                item |-> [key |-> parsedIdentifier.firstWordInitial,
                          index |-> parsedIdentifier.secondWordIndex,
                          position |-> foundItem]]

\* dereference of a pointer returned by GetItem
Deref(buckets, item) == buckets[item.key][item.index][item.position]

\* operator+= without the duplicate scan
OperatorPlusEq_noDuplicateCheck(buckets, itemToAdd) ==
  LET parsedIdentifier == tryParseItemIdentifier(itemToAdd.pID) IN
  IF ~parsedIdentifier.ok THEN [buckets |-> buckets, err |-> "Invalid ID"]
  ELSE LET key == parsedIdentifier.firstWordInitial
           index == parsedIdentifier.secondWordIndex
           created == MapSubscript(buckets, key)
           itemList == created[key][index]
       IN [buckets |-> [created EXCEPT ![key][index] = push_front(itemList, itemToAdd)],
           err |-> ""]

\* operator+= that links the copy in before it scans for a duplicate
OperatorPlusEq_pushBeforeCheck(buckets, itemToAdd) ==
  LET parsedIdentifier == tryParseItemIdentifier(itemToAdd.pID) IN
  IF ~parsedIdentifier.ok THEN [buckets |-> buckets, err |-> "Invalid ID"]
  ELSE LET key == parsedIdentifier.firstWordInitial
           index == parsedIdentifier.secondWordIndex
           created == MapSubscript(buckets, key)
           itemList == created[key][index]
           duplicateItem == find_if(itemList, itemToAdd.pID, 1)
           pushed == [created EXCEPT ![key][index] = push_front(itemList, itemToAdd)]
       IN IF duplicateItem # 0
          THEN [buckets |-> pushed, err |-> "Item already exists"]
          ELSE [buckets |-> pushed, err |-> ""]

\* operator+= that takes the chain index from the first word's initial
OperatorPlusEq_wrongSlot(buckets, itemToAdd) ==
  LET parsedIdentifier == tryParseItemIdentifier(itemToAdd.pID) IN
  IF ~parsedIdentifier.ok THEN [buckets |-> buckets, err |-> "Invalid ID"]
  ELSE LET key == parsedIdentifier.firstWordInitial
           index == parsedIdentifier.firstWordInitial - FIRST_VALID_LETTER
           created == MapSubscript(buckets, key)
           itemList == created[key][index]
           duplicateItem == find_if(itemList, itemToAdd.pID, 1)
       IN IF duplicateItem # 0
          THEN [buckets |-> created, err |-> "Item already exists"]
          ELSE [buckets |-> [created EXCEPT ![key][index] = push_front(itemList, itemToAdd)],
                err |-> ""]

\* DataStructure::operator+=
OperatorPlusEq(buckets, itemToAdd) ==
  LET parsedIdentifier == tryParseItemIdentifier(itemToAdd.pID) IN
  IF ~parsedIdentifier.ok THEN [buckets |-> buckets, err |-> "Invalid ID"]
  ELSE LET key == parsedIdentifier.firstWordInitial
           index == parsedIdentifier.secondWordIndex
           created == MapSubscript(buckets, key)
           itemList == created[key][index]
           duplicateItem == find_if(itemList, itemToAdd.pID, 1)
       IN IF duplicateItem # 0
          THEN [buckets |-> created, err |-> "Item already exists"]
          ELSE [buckets |-> [created EXCEPT ![key][index] = push_front(itemList, itemToAdd)],
                err |-> ""]

\* the scan with erase_after(currentIterator)
RECURSIVE EraseScan_eraseCurrent(_, _, _)
EraseScan_eraseCurrent(itemList, itemIdentifier, currentIterator) ==
  IF currentIterator > Len(itemList) THEN [itemList |-> itemList, erased |-> FALSE]
  ELSE IF strcmp(itemList[currentIterator].pID, itemIdentifier) = 0
  THEN [itemList |-> erase_after(itemList, currentIterator), erased |-> TRUE]
  ELSE EraseScan_eraseCurrent(itemList, itemIdentifier, currentIterator + 1)

\* the scan that gives up after the front of the chain
EraseScan_frontOnly(itemList, itemIdentifier, currentIterator) ==
  IF currentIterator > Len(itemList) THEN [itemList |-> itemList, erased |-> FALSE]
  ELSE IF strcmp(itemList[currentIterator].pID, itemIdentifier) = 0
  THEN [itemList |-> erase_after(itemList, currentIterator - 1), erased |-> TRUE]
  ELSE [itemList |-> itemList, erased |-> FALSE]

\* the scan of operator-=: currentIterator walks the chain, previousIterator
\* is one step behind it
RECURSIVE EraseScan(_, _, _)
EraseScan(itemList, itemIdentifier, currentIterator) ==
  IF currentIterator > Len(itemList) THEN [itemList |-> itemList, erased |-> FALSE]
  ELSE IF strcmp(itemList[currentIterator].pID, itemIdentifier) = 0
  THEN [itemList |-> erase_after(itemList, currentIterator - 1), erased |-> TRUE]
  ELSE EraseScan(itemList, itemIdentifier, currentIterator + 1)

\* operator-= that erases the bucket from the map once all its chains are empty
OperatorMinusEq_prune(buckets, itemIdentifier) ==
  LET parsedIdentifier == tryParseItemIdentifier(itemIdentifier) IN
  IF ~parsedIdentifier.ok THEN [buckets |-> buckets, err |-> "Invalid ID"]
  ELSE IF parsedIdentifier.firstWordInitial \notin DOMAIN buckets
  THEN [buckets |-> buckets, err |-> "Item not found"]
  ELSE LET key == parsedIdentifier.firstWordInitial
           index == parsedIdentifier.secondWordIndex
           scan == EraseScan(buckets[key][index], itemIdentifier, 1)
           erased == [buckets EXCEPT ![key][index] = scan.itemList]
       IN IF scan.erased
          THEN [buckets |-> IF \A i \in 0 .. BucketSize - 1 : erased[key][i] = <<>>
                            THEN [k \in DOMAIN erased \ {key} |-> erased[k]]
                            ELSE erased,
                err |-> ""]
          ELSE [buckets |-> buckets, err |-> "Item not found"]

\* operator-= that reaches the bucket with operator[] in place of find()
OperatorMinusEq_subscript(buckets, itemIdentifier) ==
  LET parsedIdentifier == tryParseItemIdentifier(itemIdentifier) IN
  IF ~parsedIdentifier.ok THEN [buckets |-> buckets, err |-> "Invalid ID"]
  ELSE LET key == parsedIdentifier.firstWordInitial
           index == parsedIdentifier.secondWordIndex
           created == MapSubscript(buckets, key)
           scan == EraseScan(created[key][index], itemIdentifier, 1)
       IN IF scan.erased
          THEN [buckets |-> [created EXCEPT ![key][index] = scan.itemList], err |-> ""]
          ELSE [buckets |-> created, err |-> "Item not found"]

\* DataStructure::operator-=
OperatorMinusEq(buckets, itemIdentifier) ==
  LET parsedIdentifier == tryParseItemIdentifier(itemIdentifier) IN
  IF ~parsedIdentifier.ok THEN [buckets |-> buckets, err |-> "Invalid ID"]
  ELSE IF parsedIdentifier.firstWordInitial \notin DOMAIN buckets
  THEN [buckets |-> buckets, err |-> "Item not found"]
  ELSE LET key == parsedIdentifier.firstWordInitial
           index == parsedIdentifier.secondWordIndex
           scan == EraseScan(buckets[key][index], itemIdentifier, 1)
       IN IF scan.erased
          THEN [buckets |-> [buckets EXCEPT ![key][index] = scan.itemList], err |-> ""]
          ELSE [buckets |-> buckets, err |-> "Item not found"]

\* operator<<(std::ostream&, const DataStructure&): the items in the order
\* the three nested loops visit them
RECURSIVE BucketItems(_, _)
BucketItems(bucket, index) ==
  IF index >= BucketSize THEN <<>>
  ELSE bucket[index] \o BucketItems(bucket, index + 1)

RECURSIVE ItemsFrom(_, _, _)
ItemsFrom(buckets, order, n) ==
  IF n > Len(order) THEN <<>>
  ELSE BucketItems(buckets[order[n]], 0) \o ItemsFrom(buckets, order, n + 1)

Enumerate(buckets) == ItemsFrom(buckets, MapOrder(DOMAIN buckets), 1)

\* the lines written to the stream, one per item
OperatorShiftLeft(buckets) ==
  LET items == Enumerate(buckets) IN [n \in 1 .. Len(items) |-> ItemOut(items[n])]

\* ------------------------------------------------------------ the inputs
\* "A Y", "A Ya", "A Y B" share chain (A,24); "A A" is chain (A,0);
\* "B Z" is chain (B,25); a null pointer, "C" and "B z" are malformed
ValidIds ==
  { <<65, 32, 89, 0>>, <<65, 32, 89, 97, 0>>, <<65, 32, 89, 32, 66, 0>>,
    <<65, 32, 65, 0>>, <<66, 32, 90, 0>> }

InvalidIds == { nullptr, <<67, 0>>, <<66, 32, 122, 0>> }

Ids == ValidIds \cup InvalidIds

Codes == {1, 2}

\* every identifier with Code 1, and "A Y" and "B z" with Code 2 as well
Items ==
  { [pID |-> id, Code |-> 1, pTime |-> <<116, 0>>, pNext |-> nullptr] : id \in Ids }
  \cup
  { [pID |-> id, Code |-> 2, pTime |-> <<116, 0>>, pNext |-> nullptr] :
    id \in { <<65, 32, 89, 0>>, <<66, 32, 122, 0>> } }

\* ------------------------------------------------------------- the state
VARIABLES
  mBuckets,    \* DataStructure::mBuckets
  op,          \* the member called last
  arg,         \* the identifier it was called with
  err,         \* what() of the exception it threw, "" when it returned
  retItem,     \* the pointer returned by GetItem
  retCount,    \* the value returned by GetItemsNumber
  retStream,   \* the lines written by operator<<
  before,      \* mBuckets as it was when the last call started
  nIns,        \* calls of operator+= that returned
  nRem,        \* calls of operator-= that returned
  insOrder,    \* identifiers of the stored items, oldest insert first
  consec,      \* the last two calls were operator-= on one identifier,
               \* and the first of them returned
  parsed,      \* the ParsedItemIdentifier local of the last call
  argItem,     \* the Item handed to operator+= by the last call, if any
  insertedKeys, \* first characters of the identifiers operator+= has stored
  lhs,         \* left operand of Item::operator==
  rhs,         \* right operand of Item::operator==
  retEqual,    \* the value returned by Item::operator==
  heap,        \* the char arrays made by new char[]: address -> contents
  orig,        \* an Item of the caller: the one it hands to operator+=
  other,       \* a second Item of the caller
  node,        \* the Item inside the forward_list node made by push_front
  inserted     \* the strings and Code of orig when operator+= stored it

vars == <<mBuckets, op, arg, err, retItem, retCount, retStream, before,
          nIns, nRem, insOrder, consec, parsed, argItem, insertedKeys,
          lhs, rhs, retEqual, heap, orig, other, node, inserted>>

containerVars == <<mBuckets, op, arg, err, retItem, retCount, retStream, before,
                   nIns, nRem, insOrder, consec, parsed, argItem, insertedKeys>>

equalityVars == <<lhs, rhs, retEqual>>

storageVars == <<heap, orig, other, node, inserted>>

\* no operands, no caller Items, nothing allocated
NoEquality == lhs = <<>> /\ rhs = <<>> /\ retEqual = FALSE

NoStorage == heap = <<>> /\ orig = <<>> /\ other = <<>> /\ node = <<>> /\ inserted = <<>>

EmptyMap == [key \in {} |-> Bucket]

Init ==
  /\ mBuckets = EmptyMap
  /\ op = "DataStructure"
  /\ arg = nullptr
  /\ err = ""
  /\ retItem = NullItem
  /\ retCount = 0
  /\ retStream = <<>>
  /\ before = EmptyMap
  /\ nIns = 0
  /\ nRem = 0
  /\ insOrder = <<>>
  /\ consec = FALSE
  /\ parsed = ParsedItemIdentifier(FALSE, 0, 0)
  /\ argItem = <<>>
  /\ insertedKeys = {}
  /\ NoEquality
  /\ NoStorage

Insert(itemToAdd) ==
  /\ nIns < MaxInserts
  /\ LET r == OperatorPlusEq(mBuckets, itemToAdd) IN
       /\ mBuckets' = r.buckets
       /\ err' = r.err
       /\ nIns' = IF r.err = "" THEN nIns + 1 ELSE nIns
       /\ insOrder' = IF r.err = "" THEN Append(insOrder, itemToAdd.pID) ELSE insOrder
       /\ insertedKeys' = IF r.err = "" THEN insertedKeys \cup {itemToAdd.pID[1]}
                          ELSE insertedKeys
  /\ argItem' = <<itemToAdd>>
  /\ op' = "+="
  /\ UNCHANGED <<equalityVars, storageVars>>
  /\ arg' = itemToAdd.pID
  /\ parsed' = tryParseItemIdentifier(itemToAdd.pID)
  /\ before' = mBuckets
  /\ consec' = FALSE
  /\ retItem' = NullItem
  /\ retCount' = 0
  /\ retStream' = <<>>
  /\ UNCHANGED nRem

Remove(itemIdentifier) ==
  /\ LET r == OperatorMinusEq(mBuckets, itemIdentifier) IN
       /\ mBuckets' = r.buckets
       /\ err' = r.err
       /\ nRem' = IF r.err = "" THEN nRem + 1 ELSE nRem
       /\ insOrder' = IF r.err = ""
                      THEN SelectSeq(insOrder, LAMBDA id : id # itemIdentifier)
                      ELSE insOrder
  /\ op' = "-="
  /\ UNCHANGED <<equalityVars, storageVars>>
  /\ arg' = itemIdentifier
  /\ parsed' = tryParseItemIdentifier(itemIdentifier)
  /\ before' = mBuckets
  /\ consec' = (op = "-=" /\ err = "" /\ arg = itemIdentifier)
  /\ retItem' = NullItem
  /\ retCount' = 0
  /\ retStream' = <<>>
  /\ argItem' = <<>>
  /\ UNCHANGED <<nIns, insertedKeys>>

Find(itemIdentifier) ==
  /\ LET r == GetItem(mBuckets, itemIdentifier) IN
       /\ mBuckets' = r.buckets
       /\ retItem' = r.item
  /\ op' = "GetItem"
  /\ UNCHANGED <<equalityVars, storageVars>>
  /\ arg' = itemIdentifier
  /\ parsed' = tryParseItemIdentifier(itemIdentifier)
  /\ err' = ""
  /\ before' = mBuckets
  /\ consec' = FALSE
  /\ retCount' = 0
  /\ retStream' = <<>>
  /\ argItem' = <<>>
  /\ UNCHANGED <<nIns, nRem, insOrder, insertedKeys>>

Count ==
  /\ retCount' = GetItemsNumber(mBuckets)
  /\ op' = "GetItemsNumber"
  /\ UNCHANGED <<equalityVars, storageVars>>
  /\ arg' = nullptr
  /\ parsed' = ParsedItemIdentifier(FALSE, 0, 0)
  /\ err' = ""
  /\ before' = mBuckets
  /\ consec' = FALSE
  /\ retItem' = NullItem
  /\ retStream' = <<>>
  /\ argItem' = <<>>
  /\ UNCHANGED <<mBuckets, nIns, nRem, insOrder, insertedKeys>>

Stream ==
  /\ retStream' = OperatorShiftLeft(mBuckets)
  /\ op' = "<<"
  /\ UNCHANGED <<equalityVars, storageVars>>
  /\ arg' = nullptr
  /\ parsed' = ParsedItemIdentifier(FALSE, 0, 0)
  /\ err' = ""
  /\ before' = mBuckets
  /\ consec' = FALSE
  /\ retItem' = NullItem
  /\ retCount' = 0
  /\ argItem' = <<>>
  /\ UNCHANGED <<mBuckets, nIns, nRem, insOrder, insertedKeys>>

Next ==
  \/ \E itemToAdd \in Items : Insert(itemToAdd)
  \/ \E itemIdentifier \in Ids : Remove(itemIdentifier)
  \/ \E itemIdentifier \in Ids : Find(itemIdentifier)
  \/ Count
  \/ Stream

Spec == Init /\ [][Next]_vars

\* ------------------------------------------- the parser on its own inputs
\* the characters ' ', '@', 'A', 'Z', '[' and 'a': the separator and both
\* sides of each end of the valid range
Alphabet == {32, 64, 65, 90, 91, 97}

CString(chars) == chars \o <<NUL>>

\* "Cafe Noir", "cafe Noir", "Cafe noir", "Cafe", "Cafe "
CafeNoir == <<67, 97, 102, 101, 32, 78, 111, 105, 114, 0>>
cafeNoir == <<99, 97, 102, 101, 32, 78, 111, 105, 114, 0>>
Cafenoir == <<67, 97, 102, 101, 32, 110, 111, 105, 114, 0>>
Cafe == <<67, 97, 102, 101, 0>>
CafeSpace == <<67, 97, 102, 101, 32, 0>>

Examples == {CafeNoir, cafeNoir, Cafenoir, Cafe, CafeSpace}

ParseInputs ==
  {nullptr} \cup Examples \cup
  UNION { {CString(chars) : chars \in [1 .. n -> Alphabet]} : n \in 0 .. MaxLen }

InitParse ==
  /\ arg \in ParseInputs
  /\ op = "input"
  /\ parsed = ParsedItemIdentifier(FALSE, 0, 0)
  /\ mBuckets = EmptyMap
  /\ err = ""
  /\ retItem = NullItem
  /\ retCount = 0
  /\ retStream = <<>>
  /\ before = EmptyMap
  /\ nIns = 0
  /\ nRem = 0
  /\ insOrder = <<>>
  /\ consec = FALSE
  /\ argItem = <<>>
  /\ insertedKeys = {}
  /\ NoEquality
  /\ NoStorage

Parse ==
  /\ op = "input"
  /\ op' = "tryParseItemIdentifier"
  /\ UNCHANGED <<equalityVars, storageVars>>
  /\ parsed' = tryParseItemIdentifier(arg)
  /\ UNCHANGED <<mBuckets, arg, err, retItem, retCount, retStream, before,
                 nIns, nRem, insOrder, consec, argItem, insertedKeys>>

NextParse == Parse

SpecParse == InitParse /\ [][NextParse]_vars

\* ------------------------------------------------- vocabulary of the claims
ValidLetters == FIRST_VALID_LETTER .. LAST_VALID_LETTER

\* the characters of a present string, terminator excluded
Chars(id) == SubSeq(id, 1, Len(id) - 1)

SpacesOf(id) == { i \in 1 .. Len(id) - 1 : id[i] = WORD_SEPARATOR }

FirstSpace(id) == CHOOSE i \in SpacesOf(id) : \A j \in SpacesOf(id) : i <= j

\* the well-formedness rule, stated on the string as a whole
Malformed(id) ==
  \/ id = nullptr
  \/ Chars(id) = <<>>
  \/ id[1] \notin ValidLetters
  \/ SpacesOf(id) = {}
  \/ FirstSpace(id) = Len(id) - 1
  \/ id[FirstSpace(id) + 1] \notin ValidLetters

FirstLevelKey(id) == id[1]

SecondLevelKey(id) == id[FirstSpace(id) + 1] - FIRST_VALID_LETTER

\* every place of the container that holds an item
Places(buckets) ==
  UNION { UNION { { [key |-> key, index |-> index, position |-> position] :
                    position \in 1 .. Len(buckets[key][index]) } :
                  index \in 0 .. BucketSize - 1 } :
          key \in DOMAIN buckets }

StoredItems(buckets) == { Deref(buckets, place) : place \in Places(buckets) }

IsStored(buckets, id) == \E place \in Places(buckets) : Deref(buckets, place).pID = id

\* what find yields: nothing, or the place together with the item found there
FindResult(buckets, id) ==
  LET item == GetItem(buckets, id).item IN
  IF item = NullItem THEN <<>> ELSE <<item, Deref(buckets, item)>>

\* what a caller can see of the container
Observable(buckets) ==
  [count |-> GetItemsNumber(buckets),
   enumeration |-> Enumerate(buckets),
   find |-> [id \in Ids |-> FindResult(buckets, id)]]

\* position of an identifier in a sequence of identifiers
PositionIn(ids, id) == CHOOSE n \in 1 .. Len(ids) : ids[n] = id

\* C1: no two stored items have equal identifiers, and operator+= with an
\* identifier that is already stored throws "Item already exists" and leaves
\* the count as it was.
C1_Uniqueness ==
  /\ \A p1, p2 \in Places(mBuckets) :
       p1 # p2 => Deref(mBuckets, p1).pID # Deref(mBuckets, p2).pID
  /\ (op = "+=" /\ IsStored(before, arg)) =>
       /\ err = "Item already exists"
       /\ GetItemsNumber(mBuckets) = GetItemsNumber(before)

C1_Witness ==
  /\ op = "+="
  /\ err = "Item already exists"
  /\ IsStored(before, arg)
  /\ GetItemsNumber(mBuckets) >= 2

\* C2: the count is the number of operator+= calls that returned minus the
\* number of operator-= calls that returned; a returning operator+= raises it
\* by one, a returning operator-= lowers it by one, GetItemsNumber returns it.
C2_CountConsistency ==
  /\ GetItemsNumber(mBuckets) = nIns - nRem
  /\ (op = "+=" /\ err = "") => GetItemsNumber(mBuckets) = GetItemsNumber(before) + 1
  /\ (op = "-=" /\ err = "") => GetItemsNumber(mBuckets) = GetItemsNumber(before) - 1
  /\ op = "GetItemsNumber" => retCount = nIns - nRem

C2_Witness ==
  /\ op = "GetItemsNumber"
  /\ nIns = 3
  /\ nRem = 1
  /\ retCount = 2

\* C3: an operator+= or operator-= that throws leaves the count, the
\* enumeration and the result of GetItem for every identifier as they were.
C3_FailureAtomicity ==
  (op \in {"+=", "-="} /\ err # "") => Observable(mBuckets) = Observable(before)

C3_Witness ==
  /\ op = "-="
  /\ err = "Item not found"
  /\ parsed.firstWordInitial \in DOMAIN before
  /\ Len(before[parsed.firstWordInitial][parsed.secondWordIndex]) >= 1

\* C4: right after operator+= returned, GetItem of the inserted identifier
\* yields an item with that identifier; right after operator-= returned,
\* GetItem of the removed identifier yields nullptr.
C4_RoundTrip ==
  /\ (op = "+=" /\ err = "") =>
       LET item == GetItem(mBuckets, arg).item IN
         /\ item # NullItem
         /\ Deref(mBuckets, item).pID = arg
  /\ (op = "-=" /\ err = "") => GetItem(mBuckets, arg).item = NullItem

C4_Witness ==
  /\ op = "-="
  /\ err = ""
  /\ GetItem(before, arg).item # NullItem
  /\ Len(mBuckets[parsed.firstWordInitial][parsed.secondWordIndex]) >= 1

\* C5: operator-= on a stored identifier returns; a second operator-= on the
\* same identifier right after it throws "Item not found", and the count is
\* then one less than it was before the first of the two calls.
C5_RemoveTwice ==
  [][ /\ (op' = "-=" /\ IsStored(mBuckets, arg')) => err' = ""
      /\ (op' = "-=" /\ op = "-=" /\ err = "" /\ arg' = arg) =>
           /\ err' = "Item not found"
           /\ GetItemsNumber(mBuckets') = GetItemsNumber(before) - 1 ]_vars

C5_Witness ==
  /\ consec
  /\ op = "-="
  /\ err = "Item not found"
  /\ GetItemsNumber(mBuckets) >= 1

\* C6: tryParseItemIdentifier fails exactly on the malformed strings; on the
\* others it yields the first character and the index (0-25) of the letter
\* after the first space. "Cafe Noir" gives ('C', 13); "cafe Noir",
\* "Cafe noir", "Cafe", "Cafe " and a null pointer fail.
C6_ParserResult ==
  op = "tryParseItemIdentifier" =>
    /\ parsed.ok <=> ~Malformed(arg)
    /\ parsed.ok =>
         /\ parsed.firstWordInitial = FirstLevelKey(arg)
         /\ parsed.secondWordIndex = SecondLevelKey(arg)
         /\ parsed.secondWordIndex \in 0 .. BucketSize - 1
    /\ arg = CafeNoir => parsed = ParsedItemIdentifier(TRUE, 67, 13)
    /\ arg \in {cafeNoir, Cafenoir, Cafe, CafeSpace, nullptr} => ~parsed.ok

C6_Witness ==
  /\ op = "tryParseItemIdentifier"
  /\ arg = CafeNoir
  /\ parsed = ParsedItemIdentifier(TRUE, 67, 13)

\* C7: operator<< writes exactly the stored items, ordered by first-level
\* key, then by second-level key, then latest insert first.
C7_EnumerationOrder ==
  LET lines == OperatorShiftLeft(mBuckets)
      idOf(n) == CString(lines[n])
  IN /\ Len(lines) = Len(insOrder)
     /\ { idOf(n) : n \in 1 .. Len(lines) } = { insOrder[n] : n \in 1 .. Len(insOrder) }
     /\ \A m, n \in 1 .. Len(lines) :
          m < n =>
            \/ FirstLevelKey(idOf(m)) < FirstLevelKey(idOf(n))
            \/ /\ FirstLevelKey(idOf(m)) = FirstLevelKey(idOf(n))
               /\ SecondLevelKey(idOf(m)) < SecondLevelKey(idOf(n))
            \/ /\ FirstLevelKey(idOf(m)) = FirstLevelKey(idOf(n))
               /\ SecondLevelKey(idOf(m)) = SecondLevelKey(idOf(n))
               /\ PositionIn(insOrder, idOf(m)) > PositionIn(insOrder, idOf(n))
     /\ op = "<<" => retStream = lines

\* "B Z", then "A Y", then "A Ya" were inserted and are written as
\* "A Ya", "A Y", "B Z"
C7_Witness ==
  /\ op = "<<"
  /\ insOrder = << <<66, 32, 90, 0>>, <<65, 32, 89, 0>>, <<65, 32, 89, 97, 0>> >>
  /\ retStream = << <<65, 32, 89, 97>>, <<65, 32, 89>>, <<66, 32, 90>> >>

\* C8: operator-= throws "Invalid ID" iff the identifier is malformed, throws
\* "Item not found" iff it is well-formed and not stored, and returns iff it
\* is stored; when it returns, the item with that identifier and no other is
\* gone.
C8_RemoveOutcome ==
  op = "-=" =>
    /\ err \in {"", "Invalid ID", "Item not found"}
    /\ err = "Invalid ID" <=> Malformed(arg)
    /\ err = "Item not found" <=> (~Malformed(arg) /\ ~IsStored(before, arg))
    /\ err = "" <=> IsStored(before, arg)
    /\ err = "" =>
         /\ StoredItems(mBuckets) = { item \in StoredItems(before) : item.pID # arg }
         /\ Cardinality(Places(mBuckets)) = Cardinality(Places(before)) - 1

C8_Witness ==
  /\ op = "-="
  /\ err = ""
  /\ GetItem(before, arg).item.position >= 2

\* C9: operator+= throws "Invalid ID" iff the identifier is malformed (and
\* then no bucket has been created), throws "Item already exists" iff it is
\* well-formed and stored, and returns iff it is well-formed and not stored.
C9_InsertOutcome ==
  op = "+=" =>
    /\ err \in {"", "Invalid ID", "Item already exists"}
    /\ err = "Invalid ID" <=> Malformed(arg)
    /\ err = "Item already exists" <=> (~Malformed(arg) /\ IsStored(before, arg))
    /\ err = "" <=> (~Malformed(arg) /\ ~IsStored(before, arg))
    /\ Malformed(arg) => mBuckets = before

C9_Witness ==
  /\ op = "+="
  /\ err = "Item already exists"
  /\ GetItem(before, arg).item.position >= 2

\* C10: GetItem never throws and leaves the container as it was, buckets
\* present included; for a malformed identifier it returns nullptr, as it
\* does for a well-formed one that is not stored.
C10_FindFrame ==
  op = "GetItem" =>
    /\ err = ""
    /\ mBuckets = before
    /\ DOMAIN mBuckets = DOMAIN before
    /\ Observable(mBuckets) = Observable(before)
    /\ Malformed(arg) => retItem = NullItem
    /\ ~IsStored(before, arg) => retItem = NullItem

C10_Witness ==
  /\ op = "GetItem"
  /\ ~Malformed(arg)
  /\ FirstLevelKey(arg) \notin DOMAIN before
  /\ GetItemsNumber(before) >= 1
  /\ retItem = NullItem

\* the chain at an address, empty when the bucket is not in the map
ChainAt(buckets, key, index) ==
  IF key \in DOMAIN buckets THEN buckets[key][index] ELSE <<>>

\* the item find yields, without the place it was found at
FoundRecord(buckets, id) ==
  LET item == GetItem(buckets, id).item IN
  IF item = NullItem THEN <<>> ELSE <<Deref(buckets, item)>>

\* C11: a returning operator-= takes the one item with that identifier out
\* of its chain, the other items of the chain keep their order, and every
\* other chain and the set of buckets stay as they were.
C11_RemoveFrame ==
  (op = "-=" /\ err = "") =>
    LET key == FirstLevelKey(arg)
        index == SecondLevelKey(arg)
        old == before[key][index]
    IN /\ DOMAIN mBuckets = DOMAIN before
       /\ Cardinality({ n \in 1 .. Len(old) : old[n].pID = arg }) = 1
       /\ mBuckets[key][index] = SelectSeq(old, LAMBDA item : item.pID # arg)
       /\ \A k \in DOMAIN before : \A i \in 0 .. BucketSize - 1 :
            <<k, i>> # <<key, index>> => mBuckets[k][i] = before[k][i]

\* the middle item of a chain of three was removed
C11_Witness ==
  /\ op = "-="
  /\ err = ""
  /\ GetItem(before, arg).item.position = 2
  /\ Len(before[parsed.firstWordInitial][parsed.secondWordIndex]) = 3

\* C12: a bucket that is in the map stays in the map; a bucket whose 26
\* chains are all empty is still there, and GetItem, operator-= and
\* operator+= act on its key as on any other bucket.
C12_NoPruning ==
  /\ DOMAIN before \subseteq DOMAIN mBuckets
  /\ insertedKeys \subseteq DOMAIN mBuckets
  /\ \A key \in DOMAIN mBuckets :
       (\A index \in 0 .. BucketSize - 1 : mBuckets[key][index] = <<>>) =>
         \A item \in Items :
           (~Malformed(item.pID) /\ FirstLevelKey(item.pID) = key) =>
             /\ GetItem(mBuckets, item.pID).item = NullItem
             /\ OperatorMinusEq(mBuckets, item.pID) =
                  [buckets |-> mBuckets, err |-> "Item not found"]
             /\ LET r == OperatorPlusEq(mBuckets, item) IN
                  /\ r.err = ""
                  /\ DOMAIN r.buckets = DOMAIN mBuckets
                  /\ FoundRecord(r.buckets, item.pID) # <<>>

\* operator+= stored into a bucket that an operator-= had emptied
C12_Witness ==
  /\ op = "+="
  /\ err = ""
  /\ parsed.firstWordInitial \in DOMAIN before
  /\ \A index \in 0 .. BucketSize - 1 : before[parsed.firstWordInitial][index] = <<>>

\* C13: the buckets in the map are those of the first characters operator+=
\* has stored an identifier for; only a returning operator+= adds a bucket,
\* and it adds the one of its identifier's first character.
C13_BucketCreation ==
  /\ DOMAIN mBuckets = insertedKeys
  /\ (op = "+=" /\ err = "") => DOMAIN mBuckets = DOMAIN before \cup {FirstLevelKey(arg)}
  /\ ~(op = "+=" /\ err = "") => DOMAIN mBuckets = DOMAIN before

C13_Witness ==
  /\ op = "-="
  /\ err = "Item not found"
  /\ ~Malformed(arg)
  /\ FirstLevelKey(arg) \notin DOMAIN mBuckets
  /\ DOMAIN mBuckets # {}

\* C14: the identifier of every item in chain i of bucket k is well-formed
\* and has the address (k, i); so items with one identifier share a chain,
\* and GetItem yields an item iff one with that identifier is stored.
C14_AddressPlacement ==
  /\ \A place \in Places(mBuckets) :
       LET id == Deref(mBuckets, place).pID IN
         /\ ~Malformed(id)
         /\ FirstLevelKey(id) = place.key
         /\ SecondLevelKey(id) = place.index
  /\ \A p1, p2 \in Places(mBuckets) :
       Deref(mBuckets, p1).pID = Deref(mBuckets, p2).pID =>
         (p1.key = p2.key /\ p1.index = p2.index)
  /\ \A id \in Ids :
       /\ GetItem(mBuckets, id).item # NullItem <=> IsStored(mBuckets, id)
       /\ GetItem(mBuckets, id).item # NullItem =>
            Deref(mBuckets, GetItem(mBuckets, id).item).pID = id
  /\ op = "GetItem" => (retItem # NullItem <=> IsStored(before, arg))

C14_Witness ==
  /\ op = "GetItem"
  /\ retItem # NullItem
  /\ retItem.position = 2
  /\ Cardinality(DOMAIN mBuckets) = 2

\* C15: a returning operator+= puts a copy of its item at the front of the
\* target chain with the items that were there behind it in their order;
\* every other chain, and what GetItem yields for every other identifier,
\* stay as they were.
C15_InsertFrame ==
  (op = "+=" /\ err = "") =>
    LET key == FirstLevelKey(arg)
        index == SecondLevelKey(arg)
        chain == mBuckets[key][index]
    IN /\ chain # <<>>
       /\ Head(chain).pID = argItem[1].pID
       /\ Head(chain).Code = argItem[1].Code
       /\ Head(chain).pTime = argItem[1].pTime
       /\ Tail(chain) = ChainAt(before, key, index)
       /\ \A k \in DOMAIN mBuckets : \A i \in 0 .. BucketSize - 1 :
            <<k, i>> # <<key, index>> => mBuckets[k][i] = ChainAt(before, k, i)
       /\ \A id \in Ids \ {arg} : FoundRecord(mBuckets, id) = FoundRecord(before, id)

C15_Witness ==
  /\ op = "+="
  /\ err = ""
  /\ Len(mBuckets[parsed.firstWordInitial][parsed.secondWordIndex]) = 3

\* C16: GetItemsNumber is the number of items operator<< writes, and one
\* pass of operator<< visits every stored item exactly once.
C16_CountIsEnumeration ==
  /\ GetItemsNumber(mBuckets) = Len(OperatorShiftLeft(mBuckets))
  /\ GetItemsNumber(mBuckets) = Len(Enumerate(mBuckets))
  /\ \A place \in Places(mBuckets) :
       Cardinality({ n \in 1 .. Len(Enumerate(mBuckets)) :
                     Enumerate(mBuckets)[n] = Deref(mBuckets, place) }) = 1
  /\ Len(Enumerate(mBuckets)) = Cardinality(Places(mBuckets))
  /\ op = "GetItemsNumber" => retCount = Len(OperatorShiftLeft(before))

C16_Witness ==
  /\ op = "GetItemsNumber"
  /\ retCount = 3
  /\ Len(OperatorShiftLeft(mBuckets)) = 3
  /\ \E key \in DOMAIN mBuckets : \E index \in 0 .. BucketSize - 1 :
       Len(mBuckets[key][index]) = 2

\* ------------------------------------------------ Item::operator== alone
\* identifiers: absent, or any string up to MaxLen over 'A' and 'B'
EqualityIds ==
  {nullptr} \cup
  UNION { {CString(chars) : chars \in [1 .. n -> {65, 66}]} : n \in 0 .. MaxLen }

\* timestamps: absent, "t", "u"
EqualityTimes == {nullptr, <<116, 0>>, <<117, 0>>}

EqualityItems ==
  { [pID |-> id, Code |-> code, pTime |-> time, pNext |-> nullptr] :
    id \in EqualityIds, code \in Codes, time \in EqualityTimes }

InitEquals ==
  /\ lhs \in EqualityItems
  /\ rhs \in EqualityItems
  /\ retEqual = FALSE
  /\ op = "operands"
  /\ arg = nullptr
  /\ parsed = ParsedItemIdentifier(FALSE, 0, 0)
  /\ mBuckets = EmptyMap
  /\ err = ""
  /\ retItem = NullItem
  /\ retCount = 0
  /\ retStream = <<>>
  /\ before = EmptyMap
  /\ nIns = 0
  /\ nRem = 0
  /\ insOrder = <<>>
  /\ consec = FALSE
  /\ argItem = <<>>
  /\ insertedKeys = {}
  /\ NoStorage

Equals ==
  /\ op = "operands"
  /\ op' = "=="
  /\ retEqual' = ItemEquals(lhs, rhs)
  /\ UNCHANGED <<lhs, rhs, storageVars, mBuckets, arg, err, retItem, retCount,
                 retStream, before, nIns, nRem, insOrder, consec, parsed, argItem,
                 insertedKeys>>

NextEquals == Equals

SpecEquals == InitEquals /\ [][NextEquals]_vars

\* C17: Item::operator== is true iff both identifiers are absent or both are
\* present with the same bytes; an absent identifier never equals a present
\* one; Code and pTime have no part in the result.
C17_RecordEquality ==
  op = "==" =>
    /\ retEqual <=> \/ (lhs.pID = nullptr /\ rhs.pID = nullptr)
                    \/ /\ lhs.pID # nullptr
                       /\ rhs.pID # nullptr
                       /\ Len(lhs.pID) = Len(rhs.pID)
                       /\ \A n \in 1 .. Len(lhs.pID) : lhs.pID[n] = rhs.pID[n]
    /\ ((lhs.pID = nullptr) # (rhs.pID = nullptr)) => ~retEqual
    /\ \A code1, code2 \in Codes : \A time1, time2 \in EqualityTimes :
         ItemEquals([lhs EXCEPT !.Code = code1, !.pTime = time1],
                    [rhs EXCEPT !.Code = code2, !.pTime = time2]) = retEqual

\* equal identifiers, different Code and pTime
C17_Witness ==
  /\ op = "=="
  /\ retEqual
  /\ lhs.pID = <<65, 66, 0>>
  /\ lhs.Code # rhs.Code
  /\ lhs.pTime # rhs.pTime

\* --------------------------------------------- Items and their char arrays
\* Here an Item holds the addresses of its two char arrays; heap maps an
\* address to the contents of the array, or to FreeCell when nothing is
\* allocated there.
FreeCell == <<>>

EmptyHeap == [address \in 1 .. HeapSize |-> FreeCell]

FreeAddresses(h) == { address \in DOMAIN h : h[address] = FreeCell }

\* new char[length]: the lowest free address
NewCharArray(h) ==
  CHOOSE address \in FreeAddresses(h) : \A b \in FreeAddresses(h) : address <= b

\* delete[] p
DeleteArray(h, address) ==
  IF address = NullAddress THEN h ELSE [h EXCEPT ![address] = FreeCell]

\* duplicateString on addresses: the new heap and the address of the copy
duplicateStringAt(h, source) ==
  IF source = NullAddress THEN [heap |-> h, copy |-> NullAddress]
  ELSE LET length == strlen(h[source]) + 1
           copy == NewCharArray(h)
       IN [heap |-> [h EXCEPT ![copy] = SubSeq(h[source], 1, length)], copy |-> copy]

\* Item::Item(char*) with fetchItemFromProvider: a record without an
\* identifier makes the constructor throw before anything is allocated, and
\* no Item exists; otherwise the provider's strings are duplicated into new
\* arrays. item is the Item made, if any.
ItemConstructAt(h, fetchedID, fetchedCode, fetchedTime) ==
  IF fetchedID = nullptr
  THEN [heap |-> h, item |-> <<>>, err |-> "Failed to retrieve item from provider"]
  ELSE LET idAt == NewCharArray(h)
           withID == [h EXCEPT ![idAt] = SubSeq(fetchedID, 1, strlen(fetchedID) + 1)]
           timeAt == IF fetchedTime = nullptr THEN NullAddress ELSE NewCharArray(withID)
       IN [heap |-> IF fetchedTime = nullptr THEN withID
                    ELSE [withID EXCEPT ![timeAt] =
                            SubSeq(fetchedTime, 1, strlen(fetchedTime) + 1)],
           item |-> <<[pID |-> idAt, Code |-> fetchedCode, pTime |-> timeAt,
                       pNext |-> NullAddress]>>,
           err |-> ""]

\* a copy constructor that copies the pointers
ItemCopyAt_shallow(h, sourceItem) ==
  [heap |-> h,
   item |-> [pID |-> sourceItem.pID, Code |-> sourceItem.Code,
             pTime |-> sourceItem.pTime, pNext |-> NullAddress]]

\* Item::Item(const Item&) on addresses
ItemCopyAt(h, sourceItem) ==
  LET id == duplicateStringAt(h, sourceItem.pID)
      time == duplicateStringAt(id.heap, sourceItem.pTime)
  IN [heap |-> time.heap,
      item |-> [pID |-> id.copy, Code |-> sourceItem.Code, pTime |-> time.copy,
                pNext |-> NullAddress]]

\* Item::operator=; same tells whether this == &otherItem
OperatorAssign(h, this, otherItem, same) ==
  IF same THEN [heap |-> h, item |-> this]
  ELSE LET newID == duplicateStringAt(h, otherItem.pID)
           newTime == duplicateStringAt(newID.heap, otherItem.pTime)
       IN [heap |-> DeleteArray(DeleteArray(newTime.heap, this.pID), this.pTime),
           item |-> [pID |-> newID.copy, Code |-> otherItem.Code,
                     pTime |-> newTime.copy, pNext |-> NullAddress]]

\* Item::~Item
ItemDestroy(h, item) == DeleteArray(DeleteArray(h, item.pID), item.pTime)

\* what reading through a pointer gives; reading a freed array gives garbage
ReadString(h, address, garbage) ==
  IF address = NullAddress THEN nullptr
  ELSE IF h[address] = FreeCell THEN garbage
  ELSE h[address]

\* the Item as the container's code sees it: strings in place of addresses
ReadItem(h, item, garbage) ==
  [pID |-> ReadString(h, item.pID, garbage), Code |-> item.Code,
   pTime |-> ReadString(h, item.pTime, garbage), pNext |-> nullptr]

\* the container after the strings of its one node are read again
Refresh(buckets, h, stored, garbage) ==
  IF stored = <<>> \/ Places(buckets) = {} THEN buckets
  ELSE LET place == CHOOSE p \in Places(buckets) : TRUE
       IN [buckets EXCEPT ![place.key][place.index][place.position] =
             ReadItem(h, stored[1], garbage)]

StorageIds == { <<65, 32, 89, 0>>, <<66, 32, 90, 0>> }

\* what the provider may hand back as pID: an identifier, or none
FetchedIds == StorageIds \cup {nullptr}

StorageTimes == { nullptr, <<116, 0>> }

Garbage == { <<0>>, <<88, 0>> }

InitStorage ==
  /\ \E id1, id2 \in FetchedIds : \E code1 \in Codes : \E code2 \in {2} :
     \E time1, time2 \in StorageTimes :
       LET first == ItemConstructAt(EmptyHeap, id1, code1, time1)
           second == ItemConstructAt(first.heap, id2, code2, time2)
       IN /\ heap = second.heap
          /\ orig = first.item
          /\ other = second.item
          /\ err = second.err
  /\ node = <<>>
  /\ inserted = <<>>
  /\ NoEquality
  /\ mBuckets = EmptyMap
  /\ op = "Item"
  /\ arg = nullptr
  /\ retItem = NullItem
  /\ retCount = 0
  /\ retStream = <<>>
  /\ before = EmptyMap
  /\ nIns = 0
  /\ nRem = 0
  /\ insOrder = <<>>
  /\ consec = FALSE
  /\ parsed = ParsedItemIdentifier(FALSE, 0, 0)
  /\ argItem = <<>>
  /\ insertedKeys = {}

\* what a step of the caller leaves of the container's bookkeeping
CallerStep(name, handed) ==
  /\ op' = name
  /\ argItem' = handed
  /\ arg' = nullptr
  /\ err' = ""
  /\ before' = mBuckets
  /\ UNCHANGED <<retItem, retCount, retStream, nIns, nRem, insOrder, consec,
                 parsed, insertedKeys, equalityVars, inserted>>

\* structure += orig: push_front copy-constructs the node's Item from orig
StoreOrig ==
  /\ node = <<>>
  /\ orig # <<>>
  /\ Cardinality(FreeAddresses(heap)) >= 2
  /\ \E garbage \in Garbage :
       LET itemToAdd == ReadItem(heap, orig[1], garbage)
           r == OperatorPlusEq(mBuckets, itemToAdd)
           copied == ItemCopyAt(heap, orig[1])
       IN /\ err' = r.err
          /\ arg' = itemToAdd.pID
          /\ argItem' = <<itemToAdd>>
          /\ parsed' = tryParseItemIdentifier(itemToAdd.pID)
          /\ IF r.err = ""
             THEN /\ heap' = copied.heap
                  /\ node' = <<copied.item>>
                  /\ inserted' = <<itemToAdd>>
                  /\ mBuckets' = Refresh(r.buckets, copied.heap, <<copied.item>>, garbage)
                  /\ nIns' = nIns + 1
                  /\ insOrder' = Append(insOrder, itemToAdd.pID)
                  /\ insertedKeys' = insertedKeys \cup {itemToAdd.pID[1]}
             ELSE /\ mBuckets' = r.buckets
                  /\ UNCHANGED <<heap, node, inserted, nIns, insOrder, insertedKeys>>
  /\ op' = "+="
  /\ before' = mBuckets
  /\ UNCHANGED <<orig, other, retItem, retCount, retStream, nRem, consec, equalityVars>>

\* orig.GetID()[0] = character, or the same on pTime
WriteOrig(field, character) ==
  /\ orig # <<>>
  /\ orig[1][field] # NullAddress
  /\ heap' = [heap EXCEPT ![orig[1][field]][1] = character]
  /\ \E garbage \in Garbage :
       /\ mBuckets' = Refresh(mBuckets, heap', node, garbage)
       /\ CallerStep("write", <<ReadItem(heap, orig[1], garbage)>>)
  /\ UNCHANGED <<orig, other, node>>

\* orig = other
AssignOrig ==
  /\ orig # <<>>
  /\ other # <<>>
  /\ Cardinality(FreeAddresses(heap)) >= 2
  /\ LET r == OperatorAssign(heap, orig[1], other[1], FALSE) IN
       /\ heap' = r.heap
       /\ orig' = <<r.item>>
  /\ \E garbage \in Garbage :
       /\ mBuckets' = Refresh(mBuckets, heap', node, garbage)
       /\ CallerStep("orig = other", <<ReadItem(heap, other[1], garbage)>>)
  /\ UNCHANGED <<other, node>>

\* orig = orig
SelfAssignOrig ==
  /\ orig # <<>>
  /\ LET r == OperatorAssign(heap, orig[1], orig[1], TRUE) IN
       /\ heap' = r.heap
       /\ orig' = <<r.item>>
  /\ \E garbage \in Garbage :
       /\ mBuckets' = Refresh(mBuckets, heap', node, garbage)
       /\ CallerStep("orig = orig", <<ReadItem(heap, orig[1], garbage)>>)
  /\ UNCHANGED <<other, node>>

\* other = orig
AssignOther ==
  /\ orig # <<>>
  /\ other # <<>>
  /\ Cardinality(FreeAddresses(heap)) >= 2
  /\ LET r == OperatorAssign(heap, other[1], orig[1], FALSE) IN
       /\ heap' = r.heap
       /\ other' = <<r.item>>
  /\ \E garbage \in Garbage :
       /\ mBuckets' = Refresh(mBuckets, heap', node, garbage)
       /\ CallerStep("other = orig", <<ReadItem(heap, orig[1], garbage)>>)
  /\ UNCHANGED <<orig, node>>

\* orig goes out of scope
DestroyOrig ==
  /\ orig # <<>>
  /\ heap' = ItemDestroy(heap, orig[1])
  /\ orig' = <<>>
  /\ \E garbage \in Garbage :
       /\ mBuckets' = Refresh(mBuckets, heap', node, garbage)
       /\ CallerStep("~Item", <<ReadItem(heap, orig[1], garbage)>>)
  /\ UNCHANGED <<other, node>>

NextStorage ==
  \/ StoreOrig
  \/ \E character \in {66, 97} : WriteOrig("pID", character)
  \/ WriteOrig("pTime", 117)
  \/ AssignOrig
  \/ SelfAssignOrig
  \/ AssignOther
  \/ DestroyOrig

SpecStorage == InitStorage /\ [][NextStorage]_vars

\* the arrays an Item points at
ArraysOf(item) == { item[1][field] : field \in {"pID", "pTime"} } \ {NullAddress}

\* every live Item has allocated arrays of its own
OwnStorage ==
  /\ \A item \in {orig, other, node} :
       item # <<>> =>
         /\ \A address \in ArraysOf(item) : heap[address] # FreeCell
         /\ item[1].pID # NullAddress => item[1].pID # item[1].pTime
  /\ (orig # <<>> /\ other # <<>>) => ArraysOf(orig) \cap ArraysOf(other) = {}
  /\ (orig # <<>> /\ node # <<>>) => ArraysOf(orig) \cap ArraysOf(node) = {}
  /\ (other # <<>> /\ node # <<>>) => ArraysOf(other) \cap ArraysOf(node) = {}

CallerSteps == {"write", "orig = other", "orig = orig", "other = orig", "~Item"}

\* C18: the Item in the container and the caller's Items each have their own
\* identifier and timestamp arrays, also after copy construction, assignment
\* and self-assignment; writing into, assigning to or destroying the caller's
\* Item after operator+= stored it leaves the stored Item, GetItem, the count
\* and the enumeration as they were.
C18_IndependentCopies ==
  /\ OwnStorage
  /\ op \in {"orig = other", "other = orig"} =>
       /\ ReadItem(heap, orig[1], nullptr) = argItem[1]
       /\ ReadItem(heap, other[1], nullptr) = argItem[1]
  /\ op = "orig = orig" => ReadItem(heap, orig[1], nullptr) = argItem[1]
  /\ node # <<>> =>
       /\ ReadItem(heap, node[1], nullptr) = inserted[1]
       /\ StoredItems(mBuckets) = {inserted[1]}
       /\ FoundRecord(mBuckets, inserted[1].pID) = <<inserted[1]>>
       /\ GetItemsNumber(mBuckets) = 1
       /\ OperatorShiftLeft(mBuckets) = <<ItemOut(inserted[1])>>
       /\ op \in CallerSteps => mBuckets = before

\* orig was stored, then written into, then destroyed
C18_Witness ==
  /\ op = "~Item"
  /\ node # <<>>
  /\ orig = <<>>
  /\ argItem[1].pID # inserted[1].pID
  /\ FoundRecord(mBuckets, inserted[1].pID) # <<>>

====
